---- MODULE Spec2Model ----
(***************************************************************************)
(* The 2048 game manager (GameManager) and its move-resolution engine.     *)
(* The live game is the manager's grid of tiles, score and flags; the      *)
(* storage manager holds the persisted snapshot and the best score.  The   *)
(* input events move, restart and keepPlaying and the legality probe       *)
(* tryMove are the actions.  The move-selection strategies and their       *)
(* searches are functions of the live grid, applied by the getNextMove and *)
(* search actions; autoSolve and the interval timer drive autoplay.        *)
(***************************************************************************)
EXTENDS Integers, Sequences, FiniteSets, TLC

\* ------------------------------------------------------------- constants

\* The board dimension the manager is constructed with (this.size).
Size == 4

\* this.startTiles
StartTiles == 2

\* The value of a merged tile that wins the game.
WinValue == 2048

\* Math.random() is sampled at the points 0/RandGrain .. (RandGrain-1)/RandGrain.
RandGrain == 1

\* Accepted moves, restarts and tryMove probes explored in one run.
MaxMoves == 1

\* The plies the searches of AdvancedStrategy and MasterStrategy are run to.
SearchDepth == 1

\* AdvancedStrategy's and MasterStrategy's SEARCH_DEPTH.
AdvancedSearchDepth == 5

MasterSearchDepth == 4

\* The empty cells a chance layer of MasterStrategy.alphaBeta samples.
SampleSize == 3

\* The largest tile from which MasterStrategy plays its late game.
LateGameTile == 1024

\* -------------------------------------------------------------- the grid

Coords == 0 .. (Size - 1)

\* A cell position <<x, y>>.
Pos == Coords \X Coords

Directions == 0 .. 3

\* An empty cell (null in the cells array).
NoTile ==
    [x |-> -1, y |-> -1, value |-> 0, previousPosition |-> <<>>, mergedFrom |-> <<>>]

\* new Tile(position, value)
Tile(position, value) ==
    [x |-> position[1], y |-> position[2], value |-> value,
     previousPosition |-> <<>>, mergedFrom |-> <<>>]

\* tile.updatePosition(position)
updatePosition(tile, position) ==
    [tile EXCEPT !.x = position[1], !.y = position[2]]

\* tile.savePosition()
savePosition(tile) ==
    [tile EXCEPT !.previousPosition = <<tile.x, tile.y>>]

\* new Grid(size): every cell null.
EmptyCells == [p \in Pos |-> NoTile]

\* grid.eachCell visits x = 0..size-1 and, inside, y = 0..size-1.
CellOrder == [i \in 1 .. (Size * Size) |-> <<(i - 1) \div Size, (i - 1) % Size>>]

withinBounds(position) ==
    /\ position[1] >= 0
    /\ position[1] < Size
    /\ position[2] >= 0
    /\ position[2] < Size

cellContent(cells, position) ==
    IF withinBounds(position) THEN cells[position] ELSE NoTile

cellOccupied(cells, position) == cellContent(cells, position) # NoTile

cellAvailable(cells, position) == ~cellOccupied(cells, position)

\* grid.availableCells(): the empty cells in eachCell order.
RECURSIVE availableFrom(_, _)
availableFrom(cells, i) ==
    IF i > Size * Size
    THEN <<>>
    ELSE IF cells[CellOrder[i]] = NoTile
         THEN <<CellOrder[i]>> \o availableFrom(cells, i + 1)
         ELSE availableFrom(cells, i + 1)

availableCells(cells) == availableFrom(cells, 1)

cellsAvailable(cells) == \E p \in Pos : cells[p] = NoTile

\* cells[Math.floor(Math.random() * cells.length)], Math.random() = r / RandGrain
randomAvailableCell(cells, r) ==
    availableCells(cells)[((r * Len(availableCells(cells))) \div RandGrain) + 1]

insertTile(cells, tile) == [cells EXCEPT ![<<tile.x, tile.y>>] = tile]

removeTile(cells, tile) == [cells EXCEPT ![<<tile.x, tile.y>>] = NoTile]

\* The values of a grid, 0 for an empty cell (grid.serialize().cells).
Values(cells) == [p \in Pos |-> cells[p].value]

\* new Grid(size, previousState): a fresh tile per stored cell.
fromState(values) ==
    [p \in Pos |-> IF values[p] = 0 THEN NoTile ELSE Tile(p, values[p])]

\* The cell positions of a grid of the given size.
PosOf(size) == (0 .. (size - 1)) \X (0 .. (size - 1))

\* new Grid(size, previousState): a grid of the size it is given.
GridOfSize(size, values) ==
    [p \in PosOf(size) |-> IF values[p] = 0 THEN NoTile ELSE Tile(p, values[p])]

\* grid.size
gridSize(cells) == CHOOSE size \in 1 .. (Size + 1) : DOMAIN cells = PosOf(size)

\* ------------------------------------------------------ the game manager

VARIABLES grid, score, over, won, keepPlaying, storage, bestScore, last, nMoves,
          strategy, strategyButton, autoSolveInterval, timers, search

vars ==
    <<grid, score, over, won, keepPlaying, storage, bestScore, last, nMoves,
      strategy, strategyButton, autoSolveInterval, timers, search>>

\* The strategy in use, the text the manager wrote on the strategy button
\* ("" when it wrote none), the autoplay timer handle and the timers alive.
player == <<strategy, strategyButton, autoSolveInterval, timers>>

\* A variant of isGameTerminated that lets a won game go on.
isGameTerminatedWhenOver == over

\* GameManager.prototype.isGameTerminated
isGameTerminated == over \/ (won /\ ~keepPlaying)

\* A variant of serialize that does not store won.
serializeWithoutWon(cells, s, o, w, k) ==
    [size |-> Size, cells |-> Values(cells), score |-> s, over |-> o, won |-> FALSE,
     keepPlaying |-> k]

\* GameManager.prototype.serialize
serialize(cells, s, o, w, k) ==
    [size |-> gridSize(cells), cells |-> [p \in DOMAIN cells |-> cells[p].value],
     score |-> s, over |-> o, won |-> w, keepPlaying |-> k]

\* The callback of prepareTiles on the cells from the i-th of eachCell on.
RECURSIVE prepareFrom(_, _)
prepareFrom(cells, i) ==
    IF i > Size * Size
    THEN cells
    ELSE IF cells[CellOrder[i]] # NoTile
         THEN prepareFrom([cells EXCEPT ![CellOrder[i]] =
                              savePosition([cells[CellOrder[i]] EXCEPT !.mergedFrom = <<>>])],
                          i + 1)
         ELSE prepareFrom(cells, i + 1)

\* GameManager.prototype.prepareTiles: it always walks this.grid.
prepareTiles(cells) == prepareFrom(cells, 1)

\* GameManager.prototype.moveTile
moveTile(cells, tile, cell) ==
    [cells EXCEPT ![<<tile.x, tile.y>>] = NoTile, ![cell] = updatePosition(tile, cell)]

getVector(direction) ==
    CASE direction = 0 -> <<0, -1>>
      [] direction = 1 -> <<1, 0>>
      [] direction = 2 -> <<0, 1>>
      [] direction = 3 -> <<-1, 0>>

Ascending == [i \in 1 .. Size |-> i - 1]

Reverse(s) == [i \in 1 .. Len(s) |-> s[Len(s) + 1 - i]]

\* A variant of buildTraversals that never reverses an axis.
buildTraversalsAscending(vector) == [x |-> Ascending, y |-> Ascending]

\* GameManager.prototype.buildTraversals
buildTraversals(vector) ==
    [x |-> IF vector[1] = 1 THEN Reverse(Ascending) ELSE Ascending,
     y |-> IF vector[2] = 1 THEN Reverse(Ascending) ELSE Ascending]

\* The cells in the order the nested forEach of move and tryMove visits them.
TraversalCells(vector) ==
    LET t == buildTraversals(vector)
    IN  [i \in 1 .. (Size * Size) |->
            <<t.x[((i - 1) \div Size) + 1], t.y[((i - 1) % Size) + 1]>>]

\* The traversal order of each direction.
Traversal == [direction \in Directions |-> TraversalCells(getVector(direction))]

RECURSIVE findFarthestPosition(_, _, _)
findFarthestPosition(cells, cell, vector) ==
    LET next == <<cell[1] + vector[1], cell[2] + vector[2]>>
    IN  IF withinBounds(next) /\ cellAvailable(cells, next)
        THEN findFarthestPosition(cells, next, vector)
        ELSE [farthest |-> cell, next |-> next]

\* A variant of the merge test that ignores the merge marker of next.
CanMergeIgnoringMarker(tile, next) ==
    next # NoTile /\ next.value = tile.value

\* next && next.value === tile.value && !next.mergedFrom
CanMerge(tile, next) ==
    next # NoTile /\ next.value = tile.value /\ next.mergedFrom = <<>>

\* A variant of the merged value that adds one step too many.
MergedValueTripled(tile) == tile.value * 3

\* new Tile(positions.next, tile.value * 2)
MergedValue(tile) == tile.value * 2

\* A variant of the score update that adds the moving tile's value.
ScoreGainOfSource(tile, merged) == tile.value

\* self.score += merged.value
ScoreGain(tile, merged) == merged.value

\* A variant of the win test that compares with the wrong type and never fires.
ReachesWinNever(merged) == FALSE

\* if (merged.value === 2048) self.won = true
ReachesWin(merged) == merged.value = WinValue

positionsEqual(first, tile) == first[1] = tile.x /\ first[2] = tile.y

\* The body of the traversal callback of move for one cell; m carries the
\* grid cells, the score, the won flag and the moved flag.
MoveCell(m, cell, vector) ==
    LET tile == cellContent(m.cells, cell)
    IN  IF tile = NoTile
        THEN m
        ELSE
          LET positions == findFarthestPosition(m.cells, cell, vector)
              next == cellContent(m.cells, positions.next)
          IN  IF CanMerge(tile, next)
              THEN
                LET moving == updatePosition(tile, positions.next)
                    merged == [Tile(positions.next, MergedValue(tile))
                                  EXCEPT !.mergedFrom = <<moving, next>>]
                IN  [cells |-> removeTile(insertTile(m.cells, merged), tile),
                     score |-> m.score + ScoreGain(tile, merged),
                     won |-> m.won \/ ReachesWin(merged),
                     moved |-> m.moved \/ ~positionsEqual(cell, moving)]
              ELSE
                [m EXCEPT
                    !.cells = moveTile(m.cells, tile, positions.farthest),
                    !.moved = m.moved \/ ~positionsEqual(cell,
                                  updatePosition(tile, positions.farthest))]

RECURSIVE MoveCells(_, _, _, _)
MoveCells(m, order, vector, i) ==
    IF i > Len(order)
    THEN m
    ELSE MoveCells(MoveCell(m, order[i], vector), order, vector, i + 1)

\* The slide-and-merge phase of move: prepareTiles, then the traversal.
Resolve(cells, s, w, direction) ==
    MoveCells([cells |-> prepareTiles(cells), score |-> s, won |-> w, moved |-> FALSE],
              Traversal[direction], getVector(direction), 1)

\* A variant of tileMatchesAvailable that never finds a match.
NoTileMatches(cells) == FALSE

\* GameManager.prototype.tileMatchesAvailable
tileMatchesAvailable(cells) ==
    \E p \in Pos :
        /\ cellContent(cells, p) # NoTile
        /\ \E direction \in Directions :
              LET vector == getVector(direction)
                  other == cellContent(cells, <<p[1] + vector[1], p[2] + vector[2]>>)
              IN  other # NoTile /\ other.value = cells[p].value

\* A variant of movesAvailable that looks for matches only.
movesAvailableByMatch(cells) == tileMatchesAvailable(cells)

\* GameManager.prototype.movesAvailable
movesAvailable(cells) == cellsAvailable(cells) \/ tileMatchesAvailable(cells)

\* A variant of addRandomTile that always uses the first cell of the grid.
addRandomTileAtOrigin(cells, value, r) == insertTile(cells, Tile(CellOrder[1], value))

\* GameManager.prototype.addRandomTile, with Math.random() giving first
\* value (2 below 0.9, else 4) and then r / RandGrain for the cell.
addRandomTile(cells, value, r) ==
    IF cellsAvailable(cells)
    THEN insertTile(cells, Tile(randomAvailableCell(cells, r), value))
    ELSE cells

\* The tiles of after on the cells where it differs from before, in eachCell
\* order: what addRandomTile put on the grid.
RECURSIVE NewTiles(_, _, _)
NewTiles(before, after, i) ==
    IF i > Size * Size
    THEN <<>>
    ELSE IF after[CellOrder[i]] # before[CellOrder[i]]
         THEN <<after[CellOrder[i]]>> \o NewTiles(before, after, i + 1)
         ELSE NewTiles(before, after, i + 1)

SpawnValues == {2, 4}

RandomDraws == 0 .. (RandGrain - 1)

Max(a, b) == IF a >= b THEN a ELSE b

\* What a handler left behind: the event, its direction, whether the game was
\* terminated when it ran, the cell values before it, the grid after the
\* slide-and-merge phase, the spawned tile, the state before, whether
\* actuate() ran and what it did to the stored game state, and for tryMove
\* the grid it was handed and its result.
NoValues == [p \in Pos |-> 0]

Record(op, direction, terminated, before, slid, moved, spawned, sb, ob, wb, act, sto) ==
    [op |-> op, direction |-> direction, terminated |-> terminated,
     before |-> before, slid |-> slid, moved |-> moved, spawned |-> spawned,
     scoreBefore |-> sb, overBefore |-> ob, wonBefore |-> wb,
     actuated |-> act, storageOp |-> sto,
     probe |-> NoValues, result |-> FALSE]

\* ---------------------------------------------------------------- setup

\* The score a board of these values has when every tile grew from spawned 2s.
RECURSIVE TileScore(_)
TileScore(v) == IF v <= 2 THEN 0 ELSE v + 2 * TileScore(v \div 2)

RECURSIVE SumOver(_, _)
SumOver(f, i) ==
    IF i > Size * Size THEN 0 ELSE f[CellOrder[i]] + SumOver(f, i + 1)

BoardScore(values) == SumOver([p \in Pos |-> TileScore(values[p])], 1)

\* A board written as its rows, top row first, each row from x = 0.
Board(rows) == [p \in Pos |-> rows[p[2] + 1][p[1] + 1]]

Snapshot(values) ==
    [size |-> Size, cells |-> values, score |-> BoardScore(values), over |-> FALSE,
     won |-> FALSE, keepPlaying |-> FALSE]

\* Lines of small tiles with at least three tiles.
Lines ==
    {l \in [1 .. Size -> {0, 2, 4}] : Cardinality({i \in 1 .. Size : l[i] # 0}) >= 3}

LineBoards ==
    {[p \in Pos |-> IF p[2] = 0 THEN l[p[1] + 1] ELSE 0] : l \in Lines}
    \cup {[p \in Pos |-> IF p[1] = 0 THEN l[p[2] + 1] ELSE 0] : l \in [1 .. Size -> {2, 4}]}

CrowdedBoards ==
    {Board(<<<<2, 4, 2, 4>>, <<4, 2, 4, 2>>, <<2, 4, 2, 4>>, <<4, 2, 0, 4>>>>),
     Board(<<<<2, 4, 2, 4>>, <<4, 2, 4, 2>>, <<2, 4, 2, 4>>, <<2, 2, 2, 4>>>>),
     Board(<<<<2, 4, 8, 2>>, <<4, 8, 2, 4>>, <<8, 2, 4, 8>>, <<0, 4, 8, 2>>>>)}

LateBoards ==
    {Board(<<<<1024, 1024, 0, 0>>, <<0, 0, 0, 0>>, <<0, 0, 0, 0>>, <<0, 0, 2, 0>>>>),
     Board(<<<<1024, 1024, 2, 4>>, <<4, 2, 4, 2>>, <<2, 4, 2, 4>>, <<4, 2, 4, 2>>>>),
     Board(<<<<2, 1024, 4, 2>>, <<4, 8, 2, 4>>, <<2, 1024, 4, 2>>, <<0, 0, 0, 0>>>>),
     Board(<<<<1024, 1024, 1024, 1024>>, <<0, 0, 0, 0>>, <<0, 0, 0, 0>>, <<2, 0, 0, 0>>>>)}

\* The snapshots the storage manager may hold when the manager is constructed.
SavedStates == {Snapshot(b) : b \in LineBoards \cup CrowdedBoards \cup LateBoards}

\* storageManager's game state: <<>> when absent, else <<snapshot>>.
InitialStorage == {<<>>} \cup {<<s>> : s \in SavedStates}

\* GameManager.prototype.addStartTiles on a new grid, one value and one
\* random draw per start tile.
RECURSIVE addStartTiles(_, _, _, _)
addStartTiles(cells, values, draws, i) ==
    IF i > StartTiles
    THEN cells
    ELSE addStartTiles(addRandomTile(cells, values[i], draws[i]), values, draws, i + 1)

\* The grids addStartTiles can leave on a new grid.
FreshGrids ==
    {addStartTiles(EmptyCells, values, draws, 1) :
        values \in [1 .. StartTiles -> SpawnValues], draws \in [1 .. StartTiles -> RandomDraws]}

\* GameManager.prototype.setup followed by its actuate(): the grid, score and
\* flags it leaves, from the stored state it finds.
SetupState(previousState, fresh) ==
    IF previousState # <<>>
    THEN [grid |-> GridOfSize(previousState[1].size, previousState[1].cells),
          score |-> previousState[1].score,
          over |-> previousState[1].over,
          won |-> previousState[1].won,
          keepPlaying |-> previousState[1].keepPlaying]
    ELSE [grid |-> fresh,
          score |-> 0, over |-> FALSE, won |-> FALSE, keepPlaying |-> FALSE]

\* What actuate() leaves in the storage manager's game state.
ActuateStorage(cells, s, o, w, k) ==
    IF o THEN <<>> ELSE <<serialize(cells, s, o, w, k)>>

Setup(previousState, best) ==
    \E fresh \in FreshGrids :
        LET st == SetupState(previousState, fresh)
        IN  /\ grid = st.grid
            /\ score = st.score
            /\ over = st.over
            /\ won = st.won
            /\ keepPlaying = st.keepPlaying
            /\ bestScore = Max(best, st.score)
            /\ storage = ActuateStorage(st.grid, st.score, st.over, st.won, st.keepPlaying)
            /\ last = Record("setup", 0, FALSE, NoValues, st.grid, FALSE, <<>>,
                             0, FALSE, FALSE, TRUE,
                             IF st.over THEN "clear" ELSE "set")

\* No search has been run yet.
NoSearch ==
    [op |-> "none", by |-> "none", strategy |-> "none", live |-> NoValues,
     node |-> NoValues, depth |-> 0, isMax |-> FALSE, direction |-> 0,
     shuffle |-> <<>>, value |-> [n |-> 0, d |-> 1]]

\* The constructor's own fields: the default strategy and no autoplay timer.
Constructed ==
    /\ strategy = "Smart"
    /\ strategyButton = ""
    /\ autoSolveInterval = 0
    /\ timers = {}
    /\ search = NoSearch

Init ==
    /\ nMoves = 0
    /\ Constructed
    /\ \E previousState \in InitialStorage : Setup(previousState, 0)

\* ---------------------------------------------------------------- events

\* A variant of the acceptance test that accepts every move.
AcceptedAlways(m) == TRUE

\* if (moved) { addRandomTile(); ...; actuate(); }
Accepted(m) == m.moved

\* GameManager.prototype.move, this.grid being live0 when it is called.
MoveFrom(live0, direction) ==
    IF isGameTerminated
    THEN
        /\ grid' = live0
        /\ last' = Record("move", direction, TRUE, Values(live0), live0, FALSE, <<>>,
                          score, over, won, FALSE, "none")
        /\ UNCHANGED <<score, over, won, keepPlaying, storage, bestScore, nMoves>>
    ELSE
        \E m \in {Resolve(live0, score, won, direction)} :
            IF Accepted(m)
            THEN
                /\ nMoves < MaxMoves
                /\ \E value \in SpawnValues, r \in RandomDraws :
                    \E cells \in {addRandomTile(m.cells, value, r)} :
                      LET o == IF ~movesAvailable(cells) THEN TRUE ELSE over
                      IN  /\ grid' = cells
                          /\ score' = m.score
                          /\ won' = m.won
                          /\ over' = o
                          /\ bestScore' = Max(bestScore, m.score)
                          /\ storage' = ActuateStorage(cells, m.score, o, m.won, keepPlaying)
                          /\ last' = Record("move", direction, FALSE, Values(live0), m.cells,
                                            TRUE, NewTiles(m.cells, cells, 1),
                                            score, over, won, TRUE,
                                            IF o THEN "clear" ELSE "set")
                /\ nMoves' = nMoves + 1
                /\ UNCHANGED keepPlaying
            ELSE
                /\ grid' = m.cells
                /\ score' = m.score
                /\ won' = m.won
                /\ last' = Record("move", direction, FALSE, Values(live0), m.cells,
                                  FALSE, <<>>, score, over, won, FALSE, "none")
                /\ UNCHANGED <<over, keepPlaying, storage, bestScore, nMoves>>

\* The move input event.
Move(direction) ==
    /\ MoveFrom(grid, direction)
    /\ UNCHANGED <<player, search>>

\* GameManager.prototype.restart: clearGameState(), then setup() finds no
\* stored state and starts a fresh game.
Restart ==
    /\ nMoves < MaxMoves
    /\ nMoves' = nMoves + 1
    /\ \E fresh \in FreshGrids :
        LET st == SetupState(<<>>, fresh)
        IN  /\ grid' = st.grid
            /\ score' = st.score
            /\ over' = st.over
            /\ won' = st.won
            /\ keepPlaying' = st.keepPlaying
            /\ bestScore' = Max(bestScore, st.score)
            /\ storage' = ActuateStorage(st.grid, st.score, st.over, st.won, st.keepPlaying)
            /\ last' = Record("restart", 0, FALSE, NoValues, st.grid, FALSE,
                              <<>>, 0, FALSE, FALSE, TRUE,
                              IF st.over THEN "clear" ELSE "set")
    /\ UNCHANGED <<player, search>>

\* GameManager.prototype.keepPlaying
KeepPlaying ==
    /\ keepPlaying' = TRUE
    /\ last' = Record("keepPlaying", 0, FALSE, NoValues, grid, FALSE, <<>>,
                      0, FALSE, FALSE, FALSE, "none")
    /\ UNCHANGED <<grid, score, over, won, storage, bestScore, nMoves, player, search>>

\* The traversal callback of tryMove for one cell: the tile comes from the
\* grid handed in, findFarthestPosition walks this.grid, and next is read
\* from the grid handed in again.
TryCell(live, copy, cell, vector) ==
    LET tile == cellContent(copy, cell)
    IN  IF tile = NoTile
        THEN FALSE
        ELSE
          LET positions == findFarthestPosition(live, cell, vector)
              next == cellContent(copy, positions.next)
          IN  \/ CanMerge(tile, next)
              \/ positions.farthest # cell

\* GameManager.prototype.tryMove(direction, grid), this.grid being live.
tryMove(live, direction, copy) ==
    \E prepared \in {prepareTiles(live)} :
        \E i \in 1 .. (Size * Size) :
            TryCell(prepared, copy, Traversal[direction][i], getVector(direction))

\* The grids the strategies hand to tryMove: a copy of the live grid, or a
\* lookahead node, which is that copy with one more tile of value 2 or 4.
LookaheadCopies(cells) ==
    {fromState(Values(cells))}
    \cup {insertTile(fromState(Values(cells)), Tile(randomAvailableCell(cells, r), value)) :
            r \in IF cellsAvailable(cells) THEN RandomDraws ELSE {}, value \in SpawnValues}

\* A call of tryMove from a strategy's search.
TryMove(direction) ==
    /\ nMoves < MaxMoves
    /\ nMoves' = nMoves + 1
    /\ \E copy \in LookaheadCopies(grid) :
          /\ grid' = prepareTiles(grid)
          /\ last' = [Record("tryMove", direction, FALSE, Values(grid), prepareTiles(grid),
                             FALSE, <<>>, score, over, won, FALSE, "none")
                          EXCEPT !.probe = Values(copy),
                                 !.result = tryMove(grid, direction, copy)]
    /\ UNCHANGED <<score, over, won, keepPlaying, storage, bestScore, player, search>>

\* ------------------------------------------------------------ strategies

\* Scores are kept exact: n / d, with d = 0 for -Infinity (n < 0) and
\* Infinity (n > 0).  Every feature of the evaluation functions is an
\* integer, and the chance layers multiply by 9/10 and 1/10 and divide by a
\* count.
Rat(n, d) == [n |-> n, d |-> d]

Infinity == Rat(1, 0)

NegInfinity == Rat(-1, 0)

\* a < b
Less(a, b) == IF a.d = b.d THEN a.n < b.n ELSE a.n * b.d < b.n * a.d

\* a <= b
LessEq(a, b) == ~Less(b, a)

\* Math.max and Math.min
MathMax(a, b) == IF Less(a, b) THEN b ELSE a

MathMin(a, b) == IF Less(b, a) THEN b ELSE a

\* a + b
Plus(a, b) ==
    IF a.d = b.d THEN Rat(a.n + b.n, a.d) ELSE Rat(a.n * b.d + b.n * a.d, a.d * b.d)

\* (k / 10) * a, for the weights 0.9 and 0.1
Tenths(k, a) == IF a.d = 0 THEN a ELSE Rat(k * a.n, 10 * a.d)

\* a / count
Over(a, count) == Rat(a.n, a.d * count)

\* Math.log2 of a tile value
RECURSIVE Log2(_)
Log2(v) == IF v <= 1 THEN 0 ELSE 1 + Log2(v \div 2)

Abs(i) == IF i < 0 THEN -i ELSE i

\* The four corner cells.
Corners == {<<0, 0>>, <<0, Size - 1>>, <<Size - 1, 0>>, <<Size - 1, Size - 1>>}

\* The largest tile value of a grid, 0 when it is empty (getMaxTile).
getMaxTile(cells) ==
    LET values == {cells[p].value : p \in Pos}
    IN  CHOOSE v \in values : \A w \in values : w <= v

\* The first cell in eachCell order that holds the largest tile: where the
\* strict test tile.value > maxTile last fired.
FirstMaxCell(cells) ==
    CellOrder[CHOOSE i \in 1 .. (Size * Size) :
                  /\ cells[CellOrder[i]].value = getMaxTile(cells)
                  /\ \A j \in 1 .. (i - 1) : cells[CellOrder[j]].value < getMaxTile(cells)]

EmptyCount(cells) == Cardinality({p \in Pos : cells[p] = NoTile})

\* The sum of the tile values (NaiveStrategy.evaluatePosition).
NaiveEvaluatePosition(cells) == SumOver([p \in Pos |-> cells[p].value], 1)

\* The right and the bottom neighbour of a cell.
RightOf(p) == <<p[1] + 1, p[2]>>

BottomOf(p) == <<p[1], p[2] + 1>>

\* Math.log2 of the tile on p less Math.log2 of its neighbour on q, 0 when
\* one of the two cells is empty or q is off the grid.
LogDrop(cells, p, q) ==
    IF cells[p] # NoTile /\ cellOccupied(cells, q)
    THEN Log2(cells[p].value) - Log2(cells[q].value)
    ELSE 0

\* smoothness of SmartStrategy and AdvancedStrategy
Smoothness(cells) ==
    SumOver([p \in Pos |-> -Abs(LogDrop(cells, p, RightOf(p)))
                              - Abs(LogDrop(cells, p, BottomOf(p)))], 1)

\* monotonicity of SmartStrategy: a count of descending pairs
SmartMonotonicity(cells) ==
    SumOver([p \in Pos |-> (IF LogDrop(cells, p, RightOf(p)) > 0 THEN 1 ELSE 0)
                              + (IF LogDrop(cells, p, BottomOf(p)) > 0 THEN 1 ELSE 0)], 1)

\* SmartStrategy.evaluatePosition
SmartEvaluatePosition(cells) ==
    NaiveEvaluatePosition(cells)
    + EmptyCount(cells) * 10000
    + Smoothness(cells) * 40
    + SmartMonotonicity(cells) * 50
    + (IF getMaxTile(cells) > 0 /\ FirstMaxCell(cells) \in Corners THEN 20000 ELSE 0)

\* monotonicity of AdvancedStrategy: the size of the descents
AdvancedMonotonicity(cells) ==
    SumOver([p \in Pos |-> Max(LogDrop(cells, p, RightOf(p)), 0)
                              + Max(LogDrop(cells, p, BottomOf(p)), 0)], 1)

\* The zigzag from the top-left cell: row 0 rightwards, row 1 leftwards, ...
SnakePattern ==
    [i \in 1 .. (Size * Size) |->
        <<IF ((i - 1) \div Size) % 2 = 0 THEN (i - 1) % Size ELSE Size - 1 - ((i - 1) % Size),
          (i - 1) \div Size>>]

\* The sum of Math.log2(tile.value) over the tiles of the snake that do not
\* exceed the tile before them; lastValue = 0 stands for Infinity.
RECURSIVE SnakeFrom(_, _, _)
SnakeFrom(cells, i, lastValue) ==
    IF i > Size * Size
    THEN 0
    ELSE IF cells[SnakePattern[i]] = NoTile
         THEN SnakeFrom(cells, i + 1, lastValue)
         ELSE (IF lastValue = 0 \/ cells[SnakePattern[i]].value <= lastValue
               THEN Log2(cells[SnakePattern[i]].value)
               ELSE 0)
              + SnakeFrom(cells, i + 1, cells[SnakePattern[i]].value)

\* corners.some(corner => tile && tile.value === maxTile)
MaxTileInCorner(cells) ==
    \E corner \in Corners :
        cells[corner] # NoTile /\ cells[corner].value = getMaxTile(cells)

\* AdvancedStrategy.evaluatePosition; snakePatternScore is 1.5 per unit of
\* log2 and weighs 100.
AdvancedEvaluatePosition(cells) ==
    EmptyCount(cells) * 12000
    + Smoothness(cells) * 60
    + AdvancedMonotonicity(cells) * 80
    + (IF MaxTileInCorner(cells) THEN 25000 ELSE 0)
    + SnakeFrom(cells, 1, 0) * 150
    - (IF MaxTileInCorner(cells) THEN 0 ELSE Log2(getMaxTile(cells)) * 1000)

EARLY_GAME_WEIGHTS ==
    <<<<2048, 1024, 512, 256>>, <<128, 256, 384, 512>>,
      <<64, 128, 256, 384>>, <<32, 64, 128, 256>>>>

LATE_GAME_WEIGHTS ==
    <<<<65536, 32768, 16384, 8192>>, <<32768, 16384, 8192, 4096>>,
      <<16384, 8192, 4096, 2048>>, <<8192, 4096, 2048, 1024>>>>

\* MasterStrategy.isValidChain
isValidChain(value1, value2) == value1 = value2 * 2 \/ value2 = value1 * 2

\* Math.log2(tile.value) when the tile on p and the tile on q form a chain.
ChainTerm(cells, p, q) ==
    IF cellOccupied(cells, q) /\ isValidChain(cells[p].value, cells[q].value)
    THEN Log2(cells[p].value)
    ELSE 0

\* What one occupied cell adds to the score of MasterStrategy.evaluatePosition:
\* its weighted value, its chains and its edge bonus, the last two weighted.
MasterCellTerm(cells, weights, p) ==
    IF cells[p] = NoTile
    THEN 0
    ELSE cells[p].value * weights[p[1] + 1][p[2] + 1]
         + (ChainTerm(cells, p, RightOf(p)) + ChainTerm(cells, p, BottomOf(p))) * 15000
         + (IF p[1] = 0 \/ p[1] = Size - 1 \/ p[2] = 0 \/ p[2] = Size - 1
            THEN cells[p].value * 2000
            ELSE 0)

\* cornerScore: twice the largest tile when its first cell is a corner.
MasterCornerScore(cells) ==
    IF getMaxTile(cells) > 0 /\ FirstMaxCell(cells) \in Corners
    THEN getMaxTile(cells) * 2
    ELSE 0

\* MasterStrategy.evaluatePosition
MasterEvaluatePosition(cells, isLateGame) ==
    SumOver([p \in Pos |->
                MasterCellTerm(cells, IF isLateGame THEN LATE_GAME_WEIGHTS
                                      ELSE EARLY_GAME_WEIGHTS, p)], 1)
    + EmptyCount(cells) * 10000
    + MasterCornerScore(cells) * 30000
    - (IF isLateGame /\ MasterCornerScore(cells) = 0
       THEN getMaxTile(cells) * 30000
       ELSE 0)

\* Custom_1.evaluatePosition: empty cells, the top row and the bottom row.
Custom1EvaluatePosition(cells) ==
    EmptyCount(cells) * 100
    + SumOver([p \in Pos |-> IF p[2] = 0 THEN cells[p].value * 2 ELSE 0], 1)
    - Cardinality({p \in Pos : p[2] = Size - 1 /\ cells[p] # NoTile}) * 500

\* Custom_1.checkTopRowMerge().possible on the live grid
checkTopRowMerge(cells) ==
    LET top == {cells[p].value : p \in {q \in Pos : q[2] = 0 /\ cells[q] # NoTile}}
    IN  /\ top # {}
        /\ LET lowestValue == CHOOSE v \in top : \A w \in top : v <= w
           IN  \/ Cardinality({p \in Pos : p[2] = 0 /\ cells[p].value = lowestValue}) > 1
               \/ \E p \in Pos : p[2] = 1 /\ cells[p].value = lowestValue

\* Custom_1.isHorizontalMovePossible
isHorizontalMovePossible(cells) ==
    \E p \in Pos :
        /\ p[1] < Size - 1
        /\ \/ cells[p] = NoTile /\ cells[RightOf(p)] # NoTile
           \/ cells[p] # NoTile /\ cells[RightOf(p)] = NoTile
           \/ cells[p] # NoTile /\ cells[RightOf(p)] # NoTile
              /\ cells[p].value = cells[RightOf(p)].value

\* The detached copy a strategy makes of a grid: a new tile per stored value.
CopyOf(cells) == fromState(Values(cells))

\* The loop over the directions 0..3 shared by every getNextMove: a
\* direction replaces the best one when tryMove accepted it and its score is
\* strictly greater.
\* A variant of the comparison that lets an equal score replace the best one.
BetterOrEqual(score_, best) == ~Less(score_, best)

\* if (score > bestScore)
Better(score_, best) == Less(best, score_)

RECURSIVE BestMoveFrom(_, _, _, _, _)
BestMoveFrom(moved, scoreOf, best, bestMove, direction) ==
    IF direction > 3
    THEN bestMove
    ELSE IF moved[direction]
         THEN LET score_ == scoreOf[direction]
              IN  IF Better(score_, best)
                  THEN BestMoveFrom(moved, scoreOf, score_, direction, direction + 1)
                  ELSE BestMoveFrom(moved, scoreOf, best, bestMove, direction + 1)
         ELSE BestMoveFrom(moved, scoreOf, best, bestMove, direction + 1)

\* A variant of the legality probes that takes every direction as moved.
TriedMovesAll(live) == [direction \in Directions |-> TRUE]

\* The results of tryMove(direction, gridCopy) on copies of the live grid.
TriedMoves(live) ==
    [direction \in Directions |-> tryMove(live, direction, CopyOf(live))]

\* NaiveStrategy.getNextMove: the copy is scored as tryMove left it.
NaiveGetNextMove(live) ==
    BestMoveFrom(TriedMoves(live),
                 [direction \in Directions |-> Rat(NaiveEvaluatePosition(CopyOf(live)), 1)],
                 Rat(-1, 1), 0, 0)

\* A variant of SmartStrategy.getNextMove that answers up on every grid.
SmartGetNextMoveUp(live) == 0

\* SmartStrategy.getNextMove
SmartGetNextMove(live) ==
    BestMoveFrom(TriedMoves(live),
                 [direction \in Directions |-> Rat(SmartEvaluatePosition(CopyOf(live)), 1)],
                 NegInfinity, 0, 0)

\* A variant of the spawn weights that takes 2 and 4 as equally likely.
SpawnWeightEven(value) == 5

\* The tenths a spawned value weighs in a chance layer: 0.9 for 2, 0.1 for 4.
SpawnWeight(value) == IF value = 2 THEN 9 ELSE 1

\* AdvancedStrategy.expectimax(grid, depth, isMax) with this.gameManager.grid
\* being live; ExpectimaxMoves is its loop over the directions from
\* direction on, ExpectimaxCells its loop over the empty cells from the i-th.
RECURSIVE expectimax(_, _, _, _)
RECURSIVE ExpectimaxMoves(_, _, _, _, _)
RECURSIVE ExpectimaxCells(_, _, _, _, _)
expectimax(live, node, depth, isMax) ==
    IF depth = 0
    THEN Rat(AdvancedEvaluatePosition(node), 1)
    ELSE IF isMax
         THEN LET best == ExpectimaxMoves(live, node, depth, NegInfinity, 0)
              IN  IF best = NegInfinity
                  THEN Rat(AdvancedEvaluatePosition(node), 1)
                  ELSE best
         ELSE LET emptyCells == availableCells(node)
              IN  IF Len(emptyCells) = 0
                  THEN Rat(AdvancedEvaluatePosition(node), 1)
                  ELSE Over(ExpectimaxCells(live, node, depth, emptyCells, 1),
                            Len(emptyCells))

ExpectimaxMoves(live, node, depth, best, direction) ==
    IF direction > 3
    THEN best
    ELSE IF tryMove(live, direction, CopyOf(node))
         THEN ExpectimaxMoves(live, node, depth,
                              MathMax(best,
                                      expectimax(live, CopyOf(node), depth - 1, FALSE)),
                              direction + 1)
         ELSE ExpectimaxMoves(live, node, depth, best, direction + 1)

ExpectimaxCells(live, node, depth, emptyCells, i) ==
    IF i > Len(emptyCells)
    THEN Rat(0, 1)
    ELSE Plus(Plus(Tenths(SpawnWeight(2),
                          expectimax(live, insertTile(CopyOf(node), Tile(emptyCells[i], 2)),
                                     depth - 1, TRUE)),
                   Tenths(SpawnWeight(4),
                          expectimax(live, insertTile(CopyOf(node), Tile(emptyCells[i], 4)),
                                     depth - 1, TRUE))),
              ExpectimaxCells(live, node, depth, emptyCells, i + 1))

\* AdvancedStrategy.getNextMove, searching depth plies.
AdvancedGetNextMove(live, depth) ==
    BestMoveFrom(TriedMoves(live),
                 [direction \in Directions |-> expectimax(live, CopyOf(live), depth, FALSE)],
                 NegInfinity, 0, 0)

\* The orders in which sampleCells can leave the cells it keeps.
Shuffles ==
    {shuffle \in [1 .. SampleSize -> 1 .. SampleSize] :
        \A i \in 1 .. SampleSize : \A j \in 1 .. SampleSize :
            shuffle[i] = shuffle[j] => i = j}

\* MasterStrategy.sampleCells(cells, count): the random sort leaves the cells
\* in some order and the first count of them are kept; shuffle orders the
\* first SampleSize cells.
RECURSIVE sampleFrom(_, _, _)
sampleFrom(cells, shuffle, i) ==
    IF i > Len(shuffle)
    THEN <<>>
    ELSE (IF shuffle[i] <= Len(cells) THEN <<cells[shuffle[i]]>> ELSE <<>>)
         \o sampleFrom(cells, shuffle, i + 1)

sampleCells(cells, shuffle) == sampleFrom(cells, shuffle, 1)

\* A variant of the cut-off test that always cuts.
CutOffAlways(alpha, beta) == TRUE

\* if (beta <= alpha) break
CutOff(alpha, beta) == LessEq(beta, alpha)

\* MasterStrategy.alphaBeta(grid, depth, alpha, beta, isMax, isLateGame) with
\* this.gameManager.grid being live; AlphaBetaMoves is its loop over the
\* directions, AlphaBetaCells its loop over the sampled cells.
RECURSIVE alphaBeta(_, _, _, _, _, _, _, _)
RECURSIVE AlphaBetaMoves(_, _, _, _, _, _, _, _, _)
RECURSIVE AlphaBetaCells(_, _, _, _, _, _, _, _, _, _)
alphaBeta(live, node, depth, alpha, beta, isMax, isLateGame, shuffle) ==
    IF depth = 0
    THEN Rat(MasterEvaluatePosition(node, isLateGame), 1)
    ELSE IF isMax
         THEN LET value == AlphaBetaMoves(live, node, depth, alpha, beta, isLateGame,
                                          shuffle, NegInfinity, 0)
              IN  IF value = NegInfinity
                  THEN Rat(MasterEvaluatePosition(node, isLateGame), 1)
                  ELSE value
         ELSE LET emptyCells == availableCells(node)
              IN  IF Len(emptyCells) = 0
                  THEN Rat(MasterEvaluatePosition(node, isLateGame), 1)
                  ELSE AlphaBetaCells(live, node, depth, alpha, beta, isLateGame, shuffle,
                                      sampleCells(emptyCells, shuffle), Infinity, 1)

AlphaBetaMoves(live, node, depth, alpha, beta, isLateGame, shuffle, value, direction) ==
    IF direction > 3
    THEN value
    ELSE IF tryMove(live, direction, CopyOf(node))
         THEN LET v == MathMax(value,
                               alphaBeta(live, CopyOf(node), depth - 1, alpha, beta, FALSE,
                                         isLateGame, shuffle))
                  a == MathMax(alpha, v)
              IN  IF CutOff(a, beta)
                  THEN v
                  ELSE AlphaBetaMoves(live, node, depth, a, beta, isLateGame, shuffle, v,
                                      direction + 1)
         ELSE AlphaBetaMoves(live, node, depth, alpha, beta, isLateGame, shuffle, value,
                             direction + 1)

AlphaBetaCells(live, node, depth, alpha, beta, isLateGame, shuffle, sampled, value, i) ==
    IF i > Len(sampled)
    THEN value
    ELSE LET v2 == MathMin(value,
                           Tenths(9, alphaBeta(live, insertTile(CopyOf(node),
                                                                Tile(sampled[i], 2)),
                                               depth - 1, alpha, beta, TRUE, isLateGame,
                                               shuffle)))
             v4 == MathMin(v2,
                           Tenths(1, alphaBeta(live, insertTile(CopyOf(node),
                                                                Tile(sampled[i], 4)),
                                               depth - 1, alpha, beta, TRUE, isLateGame,
                                               shuffle)))
             b == MathMin(beta, v4)
         IN  IF CutOff(alpha, b)
             THEN v4
             ELSE AlphaBetaCells(live, node, depth, alpha, b, isLateGame, shuffle, sampled,
                                 v4, i + 1)

\* const isLateGame = maxTile >= 1024
isLateGame(live) == getMaxTile(live) >= LateGameTile

\* MasterStrategy.getNextMove, searching depth plies.
MasterGetNextMove(live, depth, shuffle) ==
    BestMoveFrom(TriedMoves(live),
                 [direction \in Directions |->
                     alphaBeta(live, CopyOf(live), depth, NegInfinity, Infinity, FALSE,
                               isLateGame(live), shuffle)],
                 NegInfinity, 0, 0)

\* The score Custom_1.getNextMove gives a direction: the evaluation of the
\* copy less DOWN_PENALTY for down, and for up when no horizontal move is
\* possible on the copy.
Custom1Score(live, direction) ==
    Custom1EvaluatePosition(CopyOf(live))
    - (IF direction = 2 THEN 10000 ELSE 0)
    - (IF direction = 0 /\ ~isHorizontalMovePossible(CopyOf(live)) THEN 10000 ELSE 0)

\* Custom_1.getNextMove
Custom1GetNextMove(live) ==
    IF /\ checkTopRowMerge(live)
       /\ tryMove(live, 0, CopyOf(live))
       /\ isHorizontalMovePossible(CopyOf(live))
    THEN 0
    ELSE BestMoveFrom(TriedMoves(live),
                      [direction \in Directions |-> Rat(Custom1Score(live, direction), 1)],
                      NegInfinity, 0, 0)

\* The strategies whose getNextMove is modelled.
Strategies == {"Naive", "Smart", "Advanced", "Master", "Custom_1"}

Min(a, b) == IF a <= b THEN a ELSE b

\* strategy.getNextMove() of a strategy of class s on the live grid.
getNextMove(s, live, shuffle) ==
    CASE s = "Naive" -> NaiveGetNextMove(live)
      [] s = "Smart" -> SmartGetNextMove(live)
      [] s = "Advanced" ->
            AdvancedGetNextMove(live, Min(AdvancedSearchDepth, SearchDepth))
      [] s = "Master" ->
            MasterGetNextMove(live, Min(MasterSearchDepth, SearchDepth), shuffle)
      [] s = "Custom_1" -> Custom1GetNextMove(live)

\* The shuffles a strategy of class s can draw.
ShufflesFor(s) == IF s = "Master" THEN Shuffles ELSE {<<>>}

\* The plies a strategy of class s searches.
DepthOf(s) ==
    CASE s = "Advanced" -> Min(AdvancedSearchDepth, SearchDepth)
      [] s = "Master" -> Min(MasterSearchDepth, SearchDepth)
      [] OTHER -> 1

\* What a call of getNextMove leaves in search.
Chosen(by, s, live, shuffle, direction) ==
    [NoSearch EXCEPT !.op = "getNextMove", !.by = by, !.strategy = s,
                     !.live = Values(live), !.node = Values(live), !.depth = DepthOf(s),
                     !.direction = direction, !.shuffle = shuffle]

\* A call of getNextMove() on a strategy of class s: every tryMove it makes
\* runs prepareTiles on the live grid.
GetNextMove(s) ==
    /\ search.op = "none"
    /\ \E shuffle \in ShufflesFor(s) :
          search' = Chosen("call", s, grid, shuffle, getNextMove(s, grid, shuffle))
    /\ grid' = prepareTiles(grid)
    /\ UNCHANGED <<score, over, won, keepPlaying, storage, bestScore, last, nMoves, player>>

\* The nodes a search reaches in one ply from the live grid: its copy, and
\* the copy with a 2 or a 4 on one of its empty cells.
SearchNodes(cells) ==
    {CopyOf(cells)}
    \cup {insertTile(CopyOf(cells), Tile(p, value)) :
            p \in {q \in Pos : cells[q] = NoTile}, value \in SpawnValues}

\* Whether expectimax(node, depth, isMax) reaches a tryMove call.
ExpectimaxProbes(node, depth, isMax) ==
    /\ depth > 0
    /\ isMax \/ (depth > 1 /\ cellsAvailable(node))

\* A call of AdvancedStrategy.expectimax on a node of the search.
Expectimax(depth, isMax) ==
    /\ search.op = "none"
    /\ \E node \in SearchNodes(grid) :
          /\ search' = [NoSearch EXCEPT !.op = "expectimax", !.by = "call",
                                         !.strategy = "Advanced", !.live = Values(grid),
                                         !.node = Values(node), !.depth = depth,
                                         !.isMax = isMax,
                                         !.value = expectimax(grid, node, depth, isMax)]
          /\ grid' = IF ExpectimaxProbes(node, depth, isMax) THEN prepareTiles(grid) ELSE grid
    /\ UNCHANGED <<score, over, won, keepPlaying, storage, bestScore, last, nMoves, player>>

\* The call MasterStrategy.getNextMove makes for a direction tryMove accepted:
\* alphaBeta(gridCopy, depth, -Infinity, Infinity, false, isLateGame).
AlphaBeta(depth) ==
    /\ search.op = "none"
    /\ \E shuffle \in Shuffles :
          search' = [NoSearch EXCEPT !.op = "alphaBeta", !.by = "call",
                                     !.strategy = "Master", !.live = Values(grid),
                                     !.node = Values(grid), !.depth = depth,
                                     !.shuffle = shuffle,
                                     !.value = alphaBeta(grid, CopyOf(grid), depth,
                                                         NegInfinity, Infinity, FALSE,
                                                         isLateGame(grid), shuffle)]
    /\ grid' = IF depth > 1 /\ cellsAvailable(grid) THEN prepareTiles(grid) ELSE grid
    /\ UNCHANGED <<score, over, won, keepPlaying, storage, bestScore, last, nMoves, player>>

\* Boards with at most SampleSize empty cells, for the searches.
SearchBoards ==
    {Board(<<<<2, 4, 2, 4>>, <<4, 2, 4, 2>>, <<2, 4, 2, 4>>, <<4, 2, 0, 4>>>>),
     Board(<<<<2, 4, 2, 4>>, <<4, 2, 4, 2>>, <<2, 4, 2, 4>>, <<2, 2, 2, 4>>>>),
     Board(<<<<2, 2, 4, 8>>, <<4, 8, 16, 2>>, <<0, 0, 2, 4>>, <<0, 4, 8, 16>>>>),
     Board(<<<<4, 2, 4, 2>>, <<2, 4, 2, 4>>, <<4, 2, 4, 2>>, <<0, 0, 0, 8>>>>),
     Board(<<<<2, 2, 2, 2>>, <<4, 4, 4, 4>>, <<8, 8, 8, 8>>, <<0, 0, 0, 2>>>>),
     Board(<<<<1024, 2, 4, 2>>, <<2, 4, 2, 4>>, <<4, 2, 4, 2>>, <<2, 4, 2, 0>>>>)}

\* What one accepted move leaves of a game set up from a board: the grid
\* with the tile spawned on the first empty cell, the score and the flags.
AfterMove(values, direction, value) ==
    LET m == Resolve(fromState(values), BoardScore(values), FALSE, direction)
        cells == addRandomTile(m.cells, value, 0)
    IN  [grid |-> cells, score |-> m.score, over |-> ~movesAvailable(cells),
         won |-> m.won, moved |-> m.moved]

\* The live games the searches are applied to: a game restored from a board,
\* and the games one accepted move later that have at most SampleSize empty
\* cells.
SearchGames ==
    {[grid |-> fromState(b), score |-> BoardScore(b), over |-> FALSE, won |-> FALSE,
      moved |-> TRUE] : b \in SearchBoards}
    \cup {g \in {AfterMove(b, direction, value) :
                    b \in SearchBoards, direction \in Directions,
                    value \in SpawnValues} :
                g.moved /\ EmptyCount(g.grid) <= SampleSize}

SearchInit ==
    /\ nMoves = 0
    /\ Constructed
    /\ \E g \in SearchGames :
          /\ grid = g.grid
          /\ score = g.score
          /\ over = g.over
          /\ won = g.won
          /\ keepPlaying = FALSE
          /\ bestScore = g.score
          /\ storage = ActuateStorage(g.grid, g.score, g.over, g.won, FALSE)
          /\ last = Record("none", 0, FALSE, NoValues, g.grid, FALSE, <<>>,
                           0, FALSE, FALSE, TRUE, IF g.over THEN "clear" ELSE "set")

SearchNext ==
    \/ \E s \in Strategies : GetNextMove(s)
    \/ \E depth \in 0 .. SearchDepth, isMax \in BOOLEAN : Expectimax(depth, isMax)
    \/ \E depth \in 1 .. 2 : AlphaBeta(depth)

\* The searches applied to live games.
SearchSpec == SearchInit /\ [][SearchNext]_vars

\* -------------------------------------------------------------- autoplay

\* A variant of clearInterval that leaves the timer running.
clearNothing(alive, handle) == alive

\* clearInterval(handle)
clearInterval(alive, handle) == alive \ {handle}

\* The handle setInterval returns: one no timer alive has.
NewHandle(alive) ==
    CHOOSE id \in 1 .. (Cardinality(alive) + 1) :
        id \notin alive /\ \A other \in 1 .. (id - 1) : other \in alive

\* GameManager.prototype.autoSolve: stop the running timer, or start one.
AutoSolve ==
    /\ IF autoSolveInterval # 0
       THEN /\ timers' = clearInterval(timers, autoSolveInterval)
            /\ autoSolveInterval' = 0
       ELSE /\ timers' = timers \cup {NewHandle(timers)}
            /\ autoSolveInterval' = NewHandle(timers)
    /\ last' = Record("autoSolve", 0, FALSE, NoValues, grid, FALSE, <<>>,
                      0, FALSE, FALSE, FALSE, "none")
    /\ UNCHANGED <<grid, score, over, won, keepPlaying, storage, bestScore, nMoves,
                   strategy, strategyButton, search>>

\* if (this.grid && !this.over)
GameGoesOn == ~over

\* The callback of the interval timer: ask the strategy and move, or stop
\* the timer once the game is over.
Tick(timer) ==
    /\ timer \in timers
    /\ IF GameGoesOn
       THEN \E shuffle \in ShufflesFor(strategy) :
              \E direction \in {getNextMove(strategy, grid, shuffle)} :
                /\ search' = Chosen("tick", strategy, grid, shuffle, direction)
                /\ MoveFrom(prepareTiles(grid), direction)
                /\ UNCHANGED player
       ELSE /\ timers' = clearInterval(timers, autoSolveInterval)
            /\ autoSolveInterval' = 0
            /\ last' = Record("tick", 0, TRUE, NoValues, grid, FALSE, <<>>,
                              0, FALSE, FALSE, FALSE, "none")
            /\ UNCHANGED <<grid, score, over, won, keepPlaying, storage, bestScore,
                           nMoves, strategy, strategyButton, search>>

\* Boards that hold the winning tile.
WonBoards ==
    {Board(<<<<2048, 2, 0, 0>>, <<4, 0, 0, 0>>, <<0, 0, 0, 0>>, <<0, 0, 0, 0>>>>),
     Board(<<<<2, 4, 2, 4>>, <<4, 2048, 4, 2>>, <<2, 4, 2, 4>>, <<4, 2, 0, 4>>>>)}

\* The snapshots a won game leaves: won is set, keepPlaying is either.
WonStates ==
    {[Snapshot(b) EXCEPT !.won = TRUE, !.keepPlaying = k] :
        b \in WonBoards, k \in BOOLEAN}

\* The games in progress the storage manager may hold when autoplay is
\* studied: won games, crowded games and games about to be won.
AutoStorage ==
    {<<s>> : s \in WonStates}
    \cup {<<Snapshot(b)>> : b \in CrowdedBoards \cup LateBoards}

AutoInit ==
    /\ nMoves = 0
    /\ Constructed
    /\ \E previousState \in AutoStorage : Setup(previousState, 0)

AutoNext ==
    \/ AutoSolve
    \/ \E timer \in timers : Tick(timer)
    \/ \E direction \in Directions : Move(direction)
    \/ KeepPlaying

\* The game played by hand and by the autoplay timer.
AutoSpec == AutoInit /\ [][AutoNext]_vars

\* ------------------------------------------------------- autoplay alone

\* The autoSolve event that switches autoplay on.
SwitchOn ==
    /\ autoSolveInterval = 0
    /\ AutoSolve

LiveInit == Init

LiveNext ==
    \/ SwitchOn
    \/ \E timer \in timers : Tick(timer)

\* States in which a tick of the running timer changes the game: it stops
\* the timer of a game that is over, or moves a game that is not terminated
\* and has accepted moves left.
TickReady ==
    /\ timers # {}
    /\ over \/ (~isGameTerminated /\ nMoves < MaxMoves)

\* The timer fires again and again: weak fairness of the tick,
\* WF_vars(\E timer \in timers : Tick(timer)), written with the states in
\* which the tick is ready; with a timer alive every step is a tick.
TickIsFair == []<>(~TickReady) \/ []<><<timers # {}>>_vars

\* Autoplay with no other input event.
LiveSpec ==
    /\ LiveInit
    /\ [][LiveNext]_vars
    /\ TickIsFair

\* ------------------------------------------------------ strategy toggle

\* The strategy classes toggleStrategy tests for and constructs.
StrategyClasses ==
    {"Naive", "Smart", "Advanced", "Custom_1", "Custom_2", "Custom_3", "Custom_4",
     "Master"}

\* s instanceof class, for a strategy of class s: Custom_2, Custom_3 and
\* Custom_4 extend Custom_1.
instanceOf(s, class) ==
    \/ s = class
    \/ class = "Custom_1" /\ s \in {"Custom_2", "Custom_3", "Custom_4"}

\* The strategy toggleStrategy constructs and the text it writes on the
\* strategy button, by the first test of its chain that holds.
toggled(s) ==
    IF instanceOf(s, "Master")
    THEN [strategy |-> "Naive", text |-> ": Naive"]
    ELSE IF instanceOf(s, "Naive")
    THEN [strategy |-> "Smart", text |-> ": Smart"]
    ELSE IF instanceOf(s, "Smart")
    THEN [strategy |-> "Advanced", text |-> ": Advanced"]
    ELSE IF instanceOf(s, "Advanced")
    THEN [strategy |-> "Custom_1", text |-> ": Custom_1"]
    ELSE IF /\ instanceOf(s, "Custom_1")
            /\ ~instanceOf(s, "Custom_2")
            /\ ~instanceOf(s, "Custom_3")
            /\ ~instanceOf(s, "Custom_4")
    THEN [strategy |-> "Custom_2", text |-> ": Custom_2"]
    ELSE IF instanceOf(s, "Custom_2")
    THEN [strategy |-> "Custom_3", text |-> ": Custom_3"]
    ELSE IF instanceOf(s, "Custom_3")
    THEN [strategy |-> "Master", text |-> ": Custom_4"]
    ELSE IF instanceOf(s, "Custom_4")
    THEN [strategy |-> "Master", text |-> ": Master"]
    ELSE [strategy |-> "Master", text |-> ": Master"]

\* GameManager.prototype.toggleStrategy
ToggleStrategy ==
    /\ strategy' = toggled(strategy).strategy
    /\ strategyButton' = toggled(strategy).text
    /\ last' = Record("toggleStrategy", 0, FALSE, NoValues, grid, FALSE, <<>>,
                      0, FALSE, FALSE, FALSE, "none")
    /\ UNCHANGED <<grid, score, over, won, keepPlaying, storage, bestScore, nMoves,
                   autoSolveInterval, timers, search>>

ToggleInit == Init

ToggleNext == ToggleStrategy

\* The game whose strategy is toggled.
ToggleSpec == ToggleInit /\ [][ToggleNext]_vars

\* ------------------------------------------------- malformed stored state

\* Stored states whose grid is not of the configured size: a row of tiles on
\* a grid one cell smaller or larger, with any score and flags.
MalformedStates ==
    {[size |-> size,
      cells |-> [p \in PosOf(size) |-> IF p[2] = 0 /\ p[1] < Size - 1 THEN l[p[1] + 1] ELSE 0],
      score |-> s, over |-> FALSE, won |-> w, keepPlaying |-> k] :
        size \in {Size - 1, Size + 1}, l \in [1 .. (Size - 1) -> {2, 4}],
        s \in {0, 4}, w \in BOOLEAN, k \in BOOLEAN}

\* The manager is constructed over a storage manager that holds a malformed
\* state.
SetupInit ==
    /\ nMoves = 0
    /\ Constructed
    /\ \E previousState \in {<<s>> : s \in MalformedStates} : Setup(previousState, 0)

SetupNext ==
    \/ Restart
    \/ KeepPlaying

\* The game set up from a malformed stored state, kept or restarted.
SetupSpec == SetupInit /\ [][SetupNext]_vars

Next ==
    \/ \E direction \in Directions : Move(direction)
    \/ \E direction \in Directions : TryMove(direction)
    \/ Restart
    \/ KeepPlaying

Spec == Init /\ [][Next]_vars

\* ------------------------------------------------------------ properties

\* The unit vector of the last event's direction.
LastVector == getVector(last.direction)

\* The last event was a move call on a game that was not terminated.
LiveMove == last.op = "move" /\ ~last.terminated

TileCount(values) == Cardinality({p \in Pos : values[p] # 0})

\* The cell one step from p in the travel direction, and one step behind it.
Ahead(p, vector) == <<p[1] + vector[1], p[2] + vector[2]>>

Behind(p, vector) == <<p[1] - vector[1], p[2] - vector[2]>>

\* The k-th line of a board read from the far edge in the travel direction.
Line(values, direction, k) ==
    [i \in 1 .. Size |->
        CASE direction = 0 -> values[<<k, i - 1>>]
          [] direction = 1 -> values[<<Size - i, k>>]
          [] direction = 2 -> values[<<k, Size - i>>]
          [] direction = 3 -> values[<<i - 1, k>>]]

\* The tiles of a line, gaps removed.
RECURSIVE Pack(_)
Pack(line) ==
    IF Len(line) = 0
    THEN <<>>
    ELSE IF Head(line) = 0 THEN Pack(Tail(line)) ELSE <<Head(line)>> \o Pack(Tail(line))

\* Equal neighbours merged pairwise from the front, each tile at most once.
RECURSIVE MergePairs(_)
MergePairs(tiles) ==
    IF Len(tiles) < 2
    THEN tiles
    ELSE IF tiles[1] = tiles[2]
         THEN <<2 * tiles[1]>> \o MergePairs(Tail(Tail(tiles)))
         ELSE <<tiles[1]>> \o MergePairs(Tail(tiles))

\* The reference 2048 collapse of one line towards its front.
Collapse(line) ==
    LET tiles == MergePairs(Pack(line))
    IN  [i \in 1 .. Size |-> IF i <= Len(tiles) THEN tiles[i] ELSE 0]

\* No tile of the board can slide or merge in the direction: every tile is at
\* the edge or has a tile of another value right ahead of it.
Stuck(values, direction) ==
    \A p \in Pos :
        values[p] # 0 =>
            LET q == Ahead(p, getVector(direction))
            IN  withinBounds(q) => (values[q] # 0 /\ values[q] # values[p])

\* C1: within one move call no tile produced by a merge of that call is
\* merged again: both sources of every merged tile carry no merge marker and
\* hold half the merged value.
MergeOnce ==
    LiveMove =>
        \A p \in Pos :
            last.slid[p].mergedFrom # <<>> =>
                \A i \in 1 .. 2 :
                    /\ last.slid[p].mergedFrom[i].mergedFrom = <<>>
                    /\ last.slid[p].mergedFrom[i].value * 2 = last.slid[p].value

\* A move left a merged tile with a tile of the same value right behind it
\* (the line 2,2,4 gave 4,4): a second merge was there to be refused.
MergeOnceWitness ==
    /\ LiveMove
    /\ \E p \in Pos :
          /\ last.slid[p].mergedFrom # <<>>
          /\ withinBounds(Behind(p, LastVector))
          /\ last.slid[Behind(p, LastVector)].value = last.slid[p].value

\* C2: the grid after the slide-and-merge phase of a move equals, line by
\* line, the reference collapse of the grid before towards the far edge in
\* the travel direction.
MoveIsLineCollapse ==
    LiveMove =>
        \A k \in Coords :
            Line(Values(last.slid), last.direction, k)
                = Collapse(Line(last.before, last.direction, k))

\* A move collapsed a line whose first three tiles were equal (2,2,2 gave 4,2).
MoveIsLineCollapseWitness ==
    /\ LiveMove
    /\ \E k \in Coords :
          LET tiles == Pack(Line(last.before, last.direction, k))
              after == Line(Values(last.slid), last.direction, k)
          IN  /\ Len(tiles) = 3
              /\ tiles[1] = tiles[2]
              /\ tiles[2] = tiles[3]
              /\ after[1] = 2 * tiles[1]
              /\ after[2] = tiles[1]
              /\ after[3] = 0

\* C3: a move on a game that is not terminated, in a direction in which no
\* tile can slide or merge, keeps every cell value, the score, over and won,
\* spawns nothing and calls neither the actuator nor the storage manager.
NoOpMoveIgnored ==
    (LiveMove /\ Stuck(last.before, last.direction)) =>
        /\ Values(grid) = last.before
        /\ score = last.scoreBefore
        /\ over = last.overBefore
        /\ won = last.wonBefore
        /\ last.spawned = <<>>
        /\ ~last.actuated
        /\ last.storageOp = "none"

\* A move was made along a full line of four tiles that cannot move (2,4,2,4).
NoOpMoveIgnoredWitness ==
    /\ LiveMove
    /\ Stuck(last.before, last.direction)
    /\ \E k \in Coords : Len(Pack(Line(last.before, last.direction, k))) = Size

\* The tiles of value v on a board.
TilesOf(values, v) == Cardinality({p \in Pos : values[p] = v})

\* The sum of the values of the tiles that carry a merge marker.
RECURSIVE MergedSum(_, _)
MergedSum(cells, i) ==
    IF i > Size * Size
    THEN 0
    ELSE (IF cells[CellOrder[i]].mergedFrom # <<>> THEN cells[CellOrder[i]].value ELSE 0)
         + MergedSum(cells, i + 1)

\* C4: a move on a game that is not terminated that can slide or merge a
\* tile adds exactly one tile afterwards, of value 2 or 4, on a cell that was
\* empty after the slide-and-merge phase.
AcceptedMoveSpawnsOne ==
    (LiveMove /\ ~Stuck(last.before, last.direction)) =>
        /\ Len(last.spawned) = 1
        /\ last.spawned[1].value \in {2, 4}
        /\ withinBounds(<<last.spawned[1].x, last.spawned[1].y>>)
        /\ last.slid[<<last.spawned[1].x, last.spawned[1].y>>] = NoTile
        /\ grid = [last.slid EXCEPT ![<<last.spawned[1].x, last.spawned[1].y>>] =
                                        last.spawned[1]]
        /\ TileCount(Values(grid)) = TileCount(Values(last.slid)) + 1

\* An accepted move left a single empty cell and the spawn filled it.
AcceptedMoveSpawnsOneWitness ==
    /\ LiveMove
    /\ ~Stuck(last.before, last.direction)
    /\ TileCount(Values(last.slid)) = Size * Size - 1
    /\ TileCount(Values(grid)) = Size * Size

\* C5: after a move call the board holds at most one tile more than before,
\* and every tile value after the slide-and-merge phase was on the board
\* before or is the double of a value two tiles held before.
Conservation ==
    last.op = "move" =>
        /\ TileCount(Values(grid)) <= TileCount(last.before) + 1
        /\ TileCount(Values(last.slid)) <= TileCount(last.before)
        /\ \A p \in Pos :
              last.slid[p] # NoTile =>
                  \/ TilesOf(last.before, last.slid[p].value) >= 1
                  \/ \E q \in Pos :
                        /\ last.before[q] * 2 = last.slid[p].value
                        /\ TilesOf(last.before, last.before[q]) >= 2

\* A move merged a pair and the spawn brought the tile count back to the
\* count before the move.
ConservationWitness ==
    /\ LiveMove
    /\ \E p \in Pos : last.slid[p].mergedFrom # <<>>
    /\ TileCount(Values(last.slid)) = TileCount(last.before) - 1
    /\ TileCount(Values(grid)) = TileCount(last.before)

\* C6: a move call increases the score by exactly the sum of the values of
\* the merged tiles it created, by zero when nothing merges or the game is
\* terminated, so the score never decreases within a game.
ScoreGrowsByMerges ==
    last.op = "move" =>
        /\ score >= last.scoreBefore
        /\ score = last.scoreBefore
                    + (IF last.terminated THEN 0 ELSE MergedSum(last.slid, 1))

\* A move made two merges and the score grew by the sum of both merged tiles.
ScoreGrowsByMergesWitness ==
    /\ LiveMove
    /\ Cardinality({p \in Pos : last.slid[p].mergedFrom # <<>>}) >= 2
    /\ score > last.scoreBefore

\* Two cells are horizontal or vertical neighbours.
Adjacent(p, q) ==
    \/ (p[1] = q[1] /\ (p[2] = q[2] + 1 \/ q[2] = p[2] + 1))
    \/ (p[2] = q[2] /\ (p[1] = q[1] + 1 \/ q[1] = p[1] + 1))

\* The board is full and no two neighbouring cells hold equal values.
Blocked(values) ==
    /\ \A p \in Pos : values[p] # 0
    /\ \A p \in Pos : \A q \in Pos : Adjacent(p, q) => values[p] # values[q]

\* C7 as claimed: tryMove returns true exactly when resolving the direction
\* on the grid it was handed moves or merges at least one tile.
LegalityAgreement ==
    last.op = "tryMove" =>
        (last.result <=> Resolve(fromState(last.probe), 0, FALSE, last.direction).moved)

\* C8: movesAvailable() is false exactly when the board has no empty cell
\* and no two horizontally or vertically adjacent cells hold equal values.
MovesAvailableIsNotBlocked ==
    /\ movesAvailable(grid) <=> ~Blocked(Values(grid))
    /\ movesAvailable(last.slid) <=> ~Blocked(Values(last.slid))

\* A full board that still holds a pair of equal neighbours, and a board
\* with no move left, were both asked for.
MovesAvailableIsNotBlockedWitness ==
    /\ ~movesAvailable(grid)
    /\ last.op = "move"
    /\ \A p \in Pos : last.before[p] # 0
    /\ ~Blocked(last.before)

\* C9: in every state over is true exactly when no move is available on the
\* current grid: the board is full and no two neighbours are equal.
OverIffBlocked == over <=> Blocked(Values(grid))

\* The spawn of an accepted move filled the board and left no move: over.
OverIffBlockedWitness ==
    /\ LiveMove
    /\ last.moved
    /\ ~last.overBefore
    /\ over

\* A tile of the winning value made by a merge of this move call.
MadeWinningTile(cells) ==
    \E p \in Pos : cells[p].mergedFrom # <<>> /\ cells[p].value = WinValue

\* C10: the move that merges two 1024 tiles into 2048 sets won in the same
\* call, whatever keepPlaying is; won only turns true in such a move, and
\* once true it stays true until restart.
WonExactlyBy2048Merge ==
    /\ []((LiveMove /\ MadeWinningTile(last.slid)) => won)
    /\ [][(~won /\ won') => (last'.op = "move" /\ ~last'.terminated
                                 /\ MadeWinningTile(last'.slid))]_vars
    /\ [][(won /\ ~won') => last'.op = "restart"]_vars

\* A move made a 2048 tile from two 1024 tiles while keepPlaying was already
\* true, and won is set.
WonExactlyBy2048MergeWitness ==
    /\ LiveMove
    /\ MadeWinningTile(last.slid)
    /\ ~last.wonBefore
    /\ keepPlaying
    /\ won

\* The directions in which some tile of the board can slide or merge.
LegalDirections(values) == {direction \in Directions : ~Stuck(values, direction)}

\* a = b for exact scores
SameScore(a, b) == IF a.d = b.d THEN a.n = b.n ELSE a.n * b.d = b.n * a.d

\* The greatest of a non-empty set of scores, and the least.
Greatest(scores) == CHOOSE a \in scores : \A b \in scores : LessEq(b, a)

Least(scores) == CHOOSE a \in scores : \A b \in scores : LessEq(a, b)

\* The grid that sliding and merging a board in a direction gives.
Slid(values, direction) == Resolve(fromState(values), 0, FALSE, direction).cells

\* C11 as claimed: a call of getNextMove() leaves the live grid, every live
\* tile's position, value, saved previous position and merge marker, and
\* score, over, won and keepPlaying as they were.
GetNextMoveIsReadOnly ==
    [][(search'.op = "getNextMove" /\ search' # search) =>
            /\ grid' = grid
            /\ score' = score
            /\ over' = over
            /\ won' = won
            /\ keepPlaying' = keepPlaying]_vars

\* C12: AdvancedStrategy.getNextMove and MasterStrategy.getNextMove return a
\* direction in which a tile of the live grid can slide or merge when there
\* is one, and direction 0 when there is none.
SearchPicksLegal ==
    (search.op = "getNextMove" /\ search.strategy \in {"Advanced", "Master"}) =>
        IF LegalDirections(search.live) # {}
        THEN search.direction \in LegalDirections(search.live)
        ELSE search.direction = 0

\* A search strategy was asked on a grid where neither up nor right is
\* possible and answered down.
SearchPicksLegalWitness ==
    /\ search.op = "getNextMove"
    /\ search.strategy \in {"Advanced", "Master"}
    /\ LegalDirections(search.live) = {2, 3}
    /\ search.direction = 2

\* C13 as claimed: SmartStrategy.getNextMove returns a legal direction whose
\* resulting grid evaluates at least as high as the resulting grid of every
\* other legal direction.
SmartIsGreedy ==
    (search.op = "getNextMove" /\ search.strategy = "Smart"
        /\ LegalDirections(search.live) # {}) =>
        /\ search.direction \in LegalDirections(search.live)
        /\ \A direction \in LegalDirections(search.live) :
              SmartEvaluatePosition(Slid(search.live, search.direction))
                  >= SmartEvaluatePosition(Slid(search.live, direction))

\* C14 as claimed: a move layer of expectimax with depth > 0 returns the
\* greatest chance-layer value at depth - 1 over the grids that resolving a
\* legal direction on the node gives, and the evaluation of the node when no
\* direction is legal on it.
ExpectimaxMoveLayer ==
    (search.op = "expectimax" /\ search.isMax /\ search.depth > 0) =>
        IF LegalDirections(search.node) = {}
        THEN SameScore(search.value,
                       Rat(AdvancedEvaluatePosition(fromState(search.node)), 1))
        ELSE SameScore(search.value,
                       Greatest({expectimax(fromState(search.live),
                                            CopyOf(Slid(search.node, direction)),
                                            search.depth - 1, FALSE) :
                                    direction \in LegalDirections(search.node)}))

\* The sum of 0.9 x the move-layer value with a 2 on the cell and 0.1 x the
\* move-layer value with a 4 on it, over the empty cells among the cells
\* from the i-th on.
RECURSIVE SpawnSum(_, _, _, _)
SpawnSum(live, node, depth, i) ==
    IF i > Size * Size
    THEN Rat(0, 1)
    ELSE IF node[CellOrder[i]] # NoTile
         THEN SpawnSum(live, node, depth, i + 1)
         ELSE Plus(Plus(Rat(9 * expectimax(live, insertTile(node, Tile(CellOrder[i], 2)),
                                           depth, TRUE).n,
                            10 * expectimax(live, insertTile(node, Tile(CellOrder[i], 2)),
                                            depth, TRUE).d),
                        Rat(expectimax(live, insertTile(node, Tile(CellOrder[i], 4)),
                                       depth, TRUE).n,
                            10 * expectimax(live, insertTile(node, Tile(CellOrder[i], 4)),
                                            depth, TRUE).d)),
                   SpawnSum(live, node, depth, i + 1))

\* C15: expectimax returns the evaluation of the node at depth 0; a chance
\* layer with depth > 0 returns the evaluation of a node without empty cell,
\* and else the mean over the empty cells of 0.9 x the move-layer value at
\* depth - 1 with a 2 on the cell + 0.1 x that value with a 4 on it.
ExpectimaxChanceLayer ==
    search.op = "expectimax" =>
        /\ search.depth = 0 =>
              SameScore(search.value,
                        Rat(AdvancedEvaluatePosition(fromState(search.node)), 1))
        /\ (search.depth > 0 /\ ~search.isMax) =>
              IF TileCount(search.node) = Size * Size
              THEN SameScore(search.value,
                             Rat(AdvancedEvaluatePosition(fromState(search.node)), 1))
              ELSE SameScore(Rat(search.value.n * (Size * Size - TileCount(search.node)),
                                 search.value.d),
                             SpawnSum(fromState(search.live), fromState(search.node),
                                      search.depth - 1, 1))

\* A chance layer averaged over three empty cells.
ExpectimaxChanceLayerWitness ==
    /\ search.op = "expectimax"
    /\ search.depth > 0
    /\ ~search.isMax
    /\ TileCount(search.node) = Size * Size - 3
    /\ search.value.d > 1

\* The two-layer search of MasterStrategy without its cut-offs: a move layer
\* takes the greatest value over the directions tryMove accepts, a chance
\* layer the least of 0.9 x and 0.1 x the move-layer values over all empty
\* cells.
RECURSIVE bruteForce(_, _, _, _, _)
bruteForce(live, node, depth, isMax, late) ==
    IF depth = 0
    THEN Rat(MasterEvaluatePosition(node, late), 1)
    ELSE IF isMax
         THEN LET legal == {d \in Directions : tryMove(live, d, CopyOf(node))}
              IN  IF legal = {}
                  THEN Rat(MasterEvaluatePosition(node, late), 1)
                  ELSE Greatest({bruteForce(live, CopyOf(node), depth - 1, FALSE, late) :
                                    direction \in legal})
         ELSE IF ~cellsAvailable(node)
              THEN Rat(MasterEvaluatePosition(node, late), 1)
              ELSE Least({Tenths(IF value = 2 THEN 9 ELSE 1,
                                 bruteForce(live, insertTile(CopyOf(node), Tile(p, value)),
                                            depth - 1, TRUE, late)) :
                             p \in {q \in Pos : node[q] = NoTile}, value \in SpawnValues})

\* The direction MasterStrategy.getNextMove picks when its children are
\* valued without cut-offs.
BruteForceMove(live, depth) ==
    BestMoveFrom(TriedMoves(live),
                 [direction \in Directions |->
                     bruteForce(live, CopyOf(live), depth, FALSE, isLateGame(live))],
                 NegInfinity, 0, 0)

\* C16: on a board with at most SampleSize empty cells and with depth at
\* most 2, alphaBeta returns for a child of the root the value the search
\* without cut-offs returns, whatever the order of the sampled cells, and
\* getNextMove picks the direction that search picks.
AlphaBetaAgreesWithBruteForce ==
    (search.op = "alphaBeta" /\ search.depth <= 2
        /\ TileCount(search.node) >= Size * Size - SampleSize) =>
        /\ SameScore(search.value,
                     bruteForce(fromState(search.live), fromState(search.node),
                                search.depth, FALSE, isLateGame(fromState(search.live))))
        /\ MasterGetNextMove(fromState(search.live), search.depth, search.shuffle)
              = BruteForceMove(fromState(search.live), search.depth)

\* A search of depth 2 over three empty cells, sampled in another order than
\* the grid's, on a grid with two legal directions: the move layers below
\* the second and third cell are cut off after their first direction.
AlphaBetaAgreesWithBruteForceWitness ==
    /\ search.op = "alphaBeta"
    /\ search.depth = 2
    /\ TileCount(search.node) = Size * Size - SampleSize
    /\ search.shuffle = <<3, 1, 2>>
    /\ Cardinality(LegalDirections(search.live)) >= 2
    /\ Less(search.value, Infinity)


\* The timers alive are exactly the one autoSolveInterval names, if any.
OneTimer == timers = (IF autoSolveInterval = 0 THEN {} ELSE {autoSolveInterval})

\* A step in which a strategy was asked for a move is a tick of the running
\* timer on a game that is not over, and the tick hands move() the direction
\* the active strategy returned.
TickMoves ==
    search' # search =>
        /\ autoSolveInterval # 0
        /\ ~over
        /\ search'.by = "tick"
        /\ search'.strategy = strategy
        /\ search'.live = Values(grid)
        /\ search'.direction = getNextMove(strategy, grid, search'.shuffle)
        /\ last'.op = "move"
        /\ last'.direction = search'.direction
        /\ last'.before = Values(grid)
        /\ UNCHANGED player

\* A tick that does not move found the game over and stopped the timer.
TickStops ==
    last'.op = "tick" =>
        /\ over
        /\ autoSolveInterval # 0
        /\ autoSolveInterval' = 0
        /\ timers' = {}
        /\ UNCHANGED <<grid, score, over, won, search>>

\* autoSolve stops the running timer at once, and starts one only when none runs.
AutoSolveToggles ==
    last'.op = "autoSolve" =>
        /\ IF autoSolveInterval # 0
           THEN autoSolveInterval' = 0 /\ timers' = {}
           ELSE autoSolveInterval' # 0 /\ timers' = {autoSolveInterval'}
        /\ UNCHANGED <<grid, score, over, won, search>>

\* C18: while autoplay is active every tick on a game that is not over asks
\* the active strategy for a move and passes it to move(); the first tick that
\* finds the game over clears the timer and sets autoSolveInterval to null,
\* and so does autoSolve when autoplay is running; once autoplay has stopped
\* no tick moves, and there is never more than one autoplay timer.
AutoplayDriver ==
    [][OneTimer /\ OneTimer' /\ TickMoves /\ TickStops /\ AutoSolveToggles]_vars

\* A tick moved the game into a blocked position and the next tick stopped
\* the timer.
AutoplayDriverWitness ==
    /\ last.op = "tick"
    /\ search.by = "tick"
    /\ over
    /\ autoSolveInterval = 0
    /\ timers = {}

\* C20: a move(direction) on a terminated game (over, or won without
\* keepPlaying), from the input or from a tick, leaves the grid with its
\* merge markers, the score, over and won as they were and spawns no tile;
\* on a won game that is not over and has keepPlaying set, a move is applied
\* exactly when some tile can slide or merge.
TerminatedMovesIgnored ==
    /\ (last.op = "move" /\ (last.overBefore \/ (last.wonBefore /\ ~keepPlaying))) =>
          /\ last.terminated
          /\ grid = last.slid
          /\ Values(grid) = last.before
          /\ score = last.scoreBefore
          /\ over = last.overBefore
          /\ won = last.wonBefore
          /\ ~last.moved
          /\ last.spawned = <<>>
    /\ (last.op = "move" /\ last.wonBefore /\ ~last.overBefore /\ keepPlaying) =>
          /\ ~last.terminated
          /\ last.moved = ~Stuck(last.before, last.direction)
          /\ last.moved => Len(last.spawned) = 1

\* A move that could have slid a tile was ignored on a game just won by a
\* merge, whose merged tile still carries its marker.
TerminatedMovesIgnoredWitness ==
    /\ last.op = "move"
    /\ last.terminated
    /\ won
    /\ ~keepPlaying
    /\ ~Stuck(last.before, last.direction)
    /\ \E p \in Pos : grid[p].mergedFrom # <<>>



\* C17: after every event that called actuate() on a game that is not over,
\* setup() run against the snapshot the storage manager was handed restores
\* a game with the configured grid size and the cell values, score, over,
\* won and keepPlaying of the current game.
PersistedStateRoundTrips ==
    (last.actuated /\ last.storageOp = "set") =>
        /\ storage # <<>>
        /\ storage[1].size = Size
        /\ LET st == SetupState(storage, EmptyCells)
           IN  /\ Values(st.grid) = Values(grid)
               /\ st.score = score
               /\ st.over = over
               /\ st.won = won
               /\ st.keepPlaying = keepPlaying

\* A game was saved after the accepted move that won it by a merge.
PersistedStateRoundTripsWitness ==
    /\ last.op = "move"
    /\ last.actuated
    /\ last.storageOp = "set"
    /\ won
    /\ ~last.wonBefore
    /\ score > last.scoreBefore
    /\ \E p \in Pos : grid[p].mergedFrom # <<>>


\* C19: setup() on a stored state whose grid is not of the configured size
\* starts a fresh game: a grid of the configured size holding the two start
\* tiles, score 0, and over, won and keepPlaying false.
MalformedStateIsAbsent ==
    last.op = "setup" =>
        /\ DOMAIN grid = Pos
        /\ score = 0
        /\ ~over
        /\ ~won
        /\ ~keepPlaying
        /\ TileCount(Values(grid)) = StartTiles


\* C21: NaiveStrategy, SmartStrategy and AdvancedStrategy each return the
\* lowest-numbered direction in which a tile of the live grid can slide or
\* merge, and 0 when there is none.
FirstLegalDirectionWins ==
    (search.op = "getNextMove" /\ search.strategy \in {"Naive", "Smart", "Advanced"}) =>
        IF LegalDirections(search.live) = {}
        THEN search.direction = 0
        ELSE /\ search.direction \in LegalDirections(search.live)
             /\ \A direction \in LegalDirections(search.live) :
                   search.direction <= direction

\* The heuristic of SmartStrategy was asked on a grid where down and left are
\* possible and the grid slid left would evaluate higher, and it answered
\* down.
FirstLegalDirectionWinsWitness ==
    /\ search.op = "getNextMove"
    /\ search.strategy = "Smart"
    /\ LegalDirections(search.live) = {2, 3}
    /\ search.direction = 2
    /\ SmartEvaluatePosition(Slid(search.live, 3))
          > SmartEvaluatePosition(Slid(search.live, 2))


\* The text that names a strategy class on the strategy button.
ButtonText(class) ==
    CASE class = "Naive" -> ": Naive"
      [] class = "Smart" -> ": Smart"
      [] class = "Advanced" -> ": Advanced"
      [] class = "Custom_1" -> ": Custom_1"
      [] class = "Custom_2" -> ": Custom_2"
      [] class = "Custom_3" -> ": Custom_3"
      [] class = "Custom_4" -> ": Custom_4"
      [] class = "Master" -> ": Master"

\* C22: after a toggleStrategy event the strategy button names the class of
\* the active strategy.
ButtonNamesActiveStrategy ==
    last.op = "toggleStrategy" => strategyButton = ButtonText(strategy)


\* The sum of the tile values of a grid.
TileSum(cells) == SumOver([p \in Pos |-> cells[p].value], 1)

\* A tick on a game that is not terminated gets a legal direction from the
\* strategy, the move is accepted, and the sum of the tiles grows by the
\* spawned 2 or 4.
TickProgresses ==
    (search' # search /\ ~isGameTerminated) =>
        /\ search'.direction \in LegalDirections(Values(grid))
        /\ last'.op = "move"
        /\ last'.moved
        /\ Len(last'.spawned) = 1
        /\ last'.spawned[1].value \in SpawnValues
        /\ TileSum(grid') = TileSum(grid) + last'.spawned[1].value

====
